---- MODULE Spec2Model ----
(***************************************************************************)
(* Deferred-binding meter provider registry of opentelemetry._metrics:     *)
(* the global registration state (_METER_PROVIDER, _METER_PROVIDER_SET_ONCE *)
(* and _PROXY_METER_PROVIDER), the provider proxy, the meter proxies and    *)
(* the instrument proxies, driven by a fixed set of threads.                *)
(*                                                                          *)
(* Every `with self._lock` block, every read or write of a module global    *)
(* outside a lock and every call into a backend made outside a lock is a    *)
(* step of its own, so the interleavings of the threads are those the       *)
(* Python code allows.                                                      *)
(***************************************************************************)
EXTENDS Naturals, Sequences, FiniteSets

\* ---------------------------------------------------------------- bounds

\* threads of the process
Threads == {1, 2}
\* calls started over the whole run, all threads together
MaxOps == 4
\* meter proxies the provider proxy may come to hold
MaxMeters == 2
\* instrument proxies, all meter proxies together
MaxInstruments == 2

\* ---------------------------------------------------------------- values

\* a lock that nobody holds
Free == 0

NoProvider == [cls |-> "None", id |-> 0]
\* the module's one _ProxyMeterProvider instance
ProxyProvider == [cls |-> "Proxy", id |-> 0]
NoOpProvider == [cls |-> "NoOp", id |-> 0]
BackendProvider(n) == [cls |-> "Backend", id |-> n]
\* the provider instance the n-th _load_provider call builds
LoadedProvider(n) == [cls |-> "Loaded", id |-> n]

\* what callers pass to set_meter_provider
SetArgs == {BackendProvider(1), NoOpProvider, ProxyProvider}

\* (name, version, schema_url) of a meter
MeterIdents == {<<"svc", "1.0", "urlA">>, <<"lib", "2.0", "urlB">>}

NoMeter == [prov |-> NoProvider, ident |-> <<>>, n |-> 0]
\* the meter a backend's (or the no-op provider's) get_meter returns: the n-th
\* object any backend has built, for the identity it was called with
BackendMeter(p, ident, n) == [prov |-> p, ident |-> ident, n |-> n]

SyncKinds == {"counter", "up_down_counter", "histogram"}
ObservableKinds ==
    {"observable_counter", "observable_gauge", "observable_up_down_counter"}
Kinds == SyncKinds \cup ObservableKinds

NoArgs == [name |-> "", unit |-> "", description |-> "", callback |-> ""]
\* the creation arguments a caller supplies; callback only for observable kinds
CallerArgs(kind) ==
    [name |-> "hits", unit |-> "By", description |-> "number of hits",
     callback |-> IF kind \in ObservableKinds THEN "cb" ELSE ""]

NoInstrument == [meter |-> NoMeter, kind |-> "", args |-> NoArgs, n |-> 0]
BackendInstrument(m, kind, args, n) ==
    [meter |-> m, kind |-> kind, args |-> args, n |-> n]

\* ---------------------------------------------------------------- state

VARIABLES
    environ,        \* OTEL_PYTHON_METER_PROVIDER in environ.keys()
    slot,           \* _METER_PROVIDER
    onceDone,       \* _METER_PROVIDER_SET_ONCE._done
    onceLock,       \* _METER_PROVIDER_SET_ONCE._lock: its holder, or Free
    proxyLock,      \* _PROXY_METER_PROVIDER._lock: its holder, or Free
    proxyReal,      \* _PROXY_METER_PROVIDER._real_meter_provider
    meters,         \* _PROXY_METER_PROVIDER._meters, each with its own fields
    pc,             \* where each thread is
    frame,          \* each thread's call in progress: arguments and locals
    ret,            \* the call that returned last: its frame and return value
    backendCalls,   \* every call made on a backend or no-op object, in order
    upgradeCalls,   \* the arguments of the calls of the proxy's on_set_meter_provider
    slotWrites,     \* the values assigned to _METER_PROVIDER, in order
    races,          \* do_once calls that waited for the gate and then lost
    warnings,       \* the warnings _logger has emitted
    winners,        \* do_once calls that returned True
    loads,          \* _load_provider calls that returned a provider
    regs,           \* _set_meter_provider calls started
    setsDone,       \* set_meter_provider calls that have returned
    ops             \* calls started

vars == <<environ, slot, onceDone, onceLock, proxyLock, proxyReal, meters, pc,
          frame, ret, backendCalls, upgradeCalls, slotWrites, races, warnings,
          winners, loads, regs, setsDone, ops>>

\* a _ProxyMeter: its identity, lock, real meter and instrument proxies;
\* bound counts the assignments of _real_meter
NewProxyMeter(ident) ==
    [ident |-> ident, lock |-> Free, real |-> NoMeter, instruments |-> <<>>,
     bound |-> 0]

\* a _ProxyInstrument: its kind, creation arguments, real instrument, and the
\* real meters on_meter_set was called with
NewProxyInstrument(kind, args) ==
    [kind |-> kind, args |-> args, real |-> NoInstrument, notified |-> <<>>]

NoFrame ==
    [op |-> "none", arg |-> NoProvider, log |-> FALSE, didSet |-> FALSE,
     warned |-> 0, i |-> 0, j |-> 0, realMeter |-> NoMeter,
     lateCall |-> FALSE, afterSets |-> FALSE, emptyAtStart |-> FALSE,
     alone |-> FALSE, ident |-> <<>>, kind |-> "",
     rkind |-> "none", rprov |-> NoProvider, rmeter |-> NoMeter,
     rinstr |-> NoInstrument, ridx |-> 0]

Init ==
    /\ environ \in BOOLEAN
    /\ slot = NoProvider
    /\ onceDone = FALSE
    /\ onceLock = Free
    /\ proxyLock = Free
    /\ proxyReal = NoProvider
    /\ meters = <<>>
    /\ pc = [t \in Threads |-> "idle"]
    /\ frame = [t \in Threads |-> NoFrame]
    /\ ret = NoFrame
    /\ backendCalls = <<>>
    /\ upgradeCalls = <<>>
    /\ slotWrites = <<>>
    /\ races = 0
    /\ warnings = 0
    /\ winners = 0
    /\ loads = 0
    /\ regs = 0
    /\ setsDone = 0
    /\ ops = 0

\* ------------------------------------------------------------- helpers

Goto(t, label) == pc' = [pc EXCEPT ![t] = label]

\* thread t's call returns with frame f
Return(t, f) ==
    /\ pc' = [pc EXCEPT ![t] = "idle"]
    /\ frame' = [frame EXCEPT ![t] = NoFrame]
    /\ ret' = f

\* the record of one call on a backend (or no-op) provider or meter
GetMeterCall(p, ident) ==
    [op |-> "get_meter", prov |-> p, meter |-> NoMeter, ident |-> ident,
     kind |-> "", args |-> NoArgs]
CreateCall(m, kind, args) ==
    [op |-> "create", prov |-> NoProvider, meter |-> m, ident |-> <<>>,
     kind |-> kind, args |-> args]

\* instrument proxies held by all meter proxies together
RECURSIVE InstrumentCount(_)
InstrumentCount(k) ==
    IF k = 0 THEN 0 ELSE Len(meters[k].instruments) + InstrumentCount(k - 1)

\* some thread is inside set_meter_provider
SetInFlight == \E u \in Threads : pc[u] # "idle" /\ frame[u].op = "set"

\* -------------------------------------------- global registration state

\* variant of line 493 that calls set_mp itself instead of handing it to the
\* gate
SetMeterProvider_NoGate(t, p) ==
    /\ pc[t] = "idle"
    /\ ops < MaxOps
    /\ frame' = [frame EXCEPT ![t] =
                    [NoFrame EXCEPT !.op = "set", !.arg = p, !.log = TRUE,
                                    !.lateCall = onceDone]]
    /\ Goto(t, "set_mp")
    /\ ops' = ops + 1
    /\ regs' = regs + 1
    /\ UNCHANGED <<environ, slot, onceDone, onceLock, proxyLock, proxyReal,
                   meters, ret, backendCalls, upgradeCalls, slotWrites, races,
                   warnings, winners, loads, setsDone>>

\* set_meter_provider(p): the call, up to the call of do_once at line 493
SetMeterProvider(t, p) ==
    /\ pc[t] = "idle"
    /\ ops < MaxOps
    /\ frame' = [frame EXCEPT ![t] =
                    [NoFrame EXCEPT !.op = "set", !.arg = p, !.log = TRUE,
                                    !.lateCall = onceDone]]
    /\ Goto(t, "once_check")
    /\ ops' = ops + 1
    /\ regs' = regs + 1
    /\ UNCHANGED <<environ, slot, onceDone, onceLock, proxyLock, proxyReal,
                   meters, ret, backendCalls, upgradeCalls, slotWrites, races, warnings, winners,
                   loads, setsDone>>

\* Once.do_once, first half: the gate has fired already, or the caller goes
\* on to wait for the gate's lock
OnceCheck(t) ==
    /\ pc[t] = "once_check"
    /\ IF onceDone
       THEN /\ frame' = [frame EXCEPT ![t].didSet = FALSE]
            /\ Goto(t, "log_check")
       ELSE /\ Goto(t, "once_wait")
            /\ UNCHANGED frame
    /\ UNCHANGED <<environ, slot, onceDone, onceLock, proxyLock, proxyReal,
                   meters, ret, backendCalls, upgradeCalls, slotWrites, races, warnings, winners,
                   loads, regs, setsDone, ops>>

\* Once.do_once, second half: with the gate's lock, run the action unless the
\* gate fired while the caller waited
OnceAcquire(t) ==
    /\ pc[t] = "once_wait"
    /\ onceLock = Free
    /\ IF onceDone
       THEN /\ frame' = [frame EXCEPT ![t].didSet = FALSE]
            /\ Goto(t, "log_check")
            /\ races' = races + 1
            /\ UNCHANGED onceLock
       ELSE /\ onceLock' = t
            /\ Goto(t, "set_mp")
            /\ UNCHANGED <<frame, races>>
    /\ UNCHANGED <<environ, slot, onceDone, proxyLock, proxyReal, meters, ret,
                   backendCalls, upgradeCalls, slotWrites, warnings, winners, loads, regs,
                   setsDone, ops>>

\* Once.do_once: the action has returned; the gate is fired and released
OnceFinish(t) ==
    /\ pc[t] = "once_done"
    /\ onceDone' = TRUE
    /\ onceLock' = Free
    /\ winners' = winners + 1
    /\ frame' = [frame EXCEPT ![t].didSet = TRUE]
    /\ Goto(t, "log_check")
    /\ UNCHANGED <<environ, slot, proxyLock, proxyReal, meters, ret,
                   backendCalls, upgradeCalls, slotWrites, races, warnings, loads, regs, setsDone,
                   ops>>

\* variant of set_mp without line 491: the provider proxy is not told
SetMp_NoUpgrade(t) ==
    /\ pc[t] = "set_mp"
    /\ slot' = frame[t].arg
    /\ slotWrites' = Append(slotWrites, frame[t].arg)
    /\ Goto(t, "once_done")
    /\ UNCHANGED <<environ, onceDone, onceLock, proxyLock, proxyReal, meters,
                   frame, ret, backendCalls, upgradeCalls, races, warnings,
                   winners, loads, regs, setsDone, ops>>

\* set_mp, line 488: _METER_PROVIDER = meter_provider
SetMp(t) ==
    /\ pc[t] = "set_mp"
    /\ slot' = frame[t].arg
    /\ slotWrites' = Append(slotWrites, frame[t].arg)
    /\ Goto(t, "up_enter")
    /\ UNCHANGED <<environ, onceDone, onceLock, proxyLock, proxyReal, meters,
                   frame, ret, backendCalls, upgradeCalls, races, warnings, winners,
                   loads, regs, setsDone, ops>>

\* variant of line 495 that tests `log` alone: the winner warns too
LogCheck_WarnsWinner(t) ==
    /\ pc[t] = "log_check"
    /\ LET warn == frame[t].log
           f == [frame[t] EXCEPT !.warned = IF warn THEN @ + 1 ELSE @,
                                 !.alone = (regs = 1)]
       IN  /\ warnings' = IF warn THEN warnings + 1 ELSE warnings
           /\ IF frame[t].op = "set"
              THEN /\ Return(t, f)
                   /\ setsDone' = setsDone + 1
              ELSE /\ frame' = [frame EXCEPT ![t] = f]
                   /\ Goto(t, "gmp_return")
                   /\ UNCHANGED <<ret, setsDone>>
    /\ UNCHANGED <<environ, slot, onceDone, onceLock, proxyLock, proxyReal,
                   meters, backendCalls, upgradeCalls, slotWrites, races,
                   winners, loads, regs, ops>>

\* _set_meter_provider, lines 495-496, and the return to its caller:
\* set_meter_provider returns, get_meter_provider goes on to line 521
LogCheck(t) ==
    /\ pc[t] = "log_check"
    /\ LET warn == frame[t].log /\ ~frame[t].didSet
           f == [frame[t] EXCEPT !.warned = IF warn THEN @ + 1 ELSE @,
                                 !.alone = (regs = 1)]
       IN  /\ warnings' = IF warn THEN warnings + 1 ELSE warnings
           /\ IF frame[t].op = "set"
              THEN /\ Return(t, f)
                   /\ setsDone' = setsDone + 1
              ELSE /\ frame' = [frame EXCEPT ![t] = f]
                   /\ Goto(t, "gmp_return")
                   /\ UNCHANGED <<ret, setsDone>>
    /\ UNCHANGED <<environ, slot, onceDone, onceLock, proxyLock, proxyReal,
                   meters, backendCalls, upgradeCalls, slotWrites, races, winners, loads, regs,
                   ops>>

\* variant of line 513 that returns a NoOpMeterProvider
GetMeterProvider_NoOp(t) ==
    /\ pc[t] = "idle"
    /\ ops < MaxOps
    /\ ops' = ops + 1
    /\ LET f == [NoFrame EXCEPT !.op = "gmp",
                                !.emptyAtStart = (slot = NoProvider),
                                !.afterSets = (setsDone > 0 /\ ~SetInFlight)]
       IN  IF slot # NoProvider
           THEN /\ frame' = [frame EXCEPT ![t] = f]
                /\ Goto(t, "gmp_return")
                /\ UNCHANGED ret
           ELSE IF ~environ
           THEN Return(t, [f EXCEPT !.rkind = "provider",
                                    !.rprov = NoOpProvider])
           ELSE /\ frame' = [frame EXCEPT ![t] = f]
                /\ Goto(t, "gmp_load")
                /\ UNCHANGED ret
    /\ UNCHANGED <<environ, slot, onceDone, onceLock, proxyLock, proxyReal,
                   meters, backendCalls, upgradeCalls, slotWrites, races,
                   warnings, winners, loads, regs, setsDone>>

\* variant of line 512 with the test of the environment inverted
GetMeterProvider_KeyInverted(t) ==
    /\ pc[t] = "idle"
    /\ ops < MaxOps
    /\ ops' = ops + 1
    /\ LET f == [NoFrame EXCEPT !.op = "gmp",
                                !.emptyAtStart = (slot = NoProvider),
                                !.afterSets = (setsDone > 0 /\ ~SetInFlight)]
       IN  IF slot # NoProvider
           THEN /\ frame' = [frame EXCEPT ![t] = f]
                /\ Goto(t, "gmp_return")
                /\ UNCHANGED ret
           ELSE IF environ
           THEN Return(t, [f EXCEPT !.rkind = "provider",
                                    !.rprov = ProxyProvider])
           ELSE /\ frame' = [frame EXCEPT ![t] = f]
                /\ Goto(t, "gmp_load")
                /\ UNCHANGED ret
    /\ UNCHANGED <<environ, slot, onceDone, onceLock, proxyLock, proxyReal,
                   meters, backendCalls, upgradeCalls, slotWrites, races,
                   warnings, winners, loads, regs, setsDone>>

\* get_meter_provider, lines 511-513: the read of _METER_PROVIDER and of the
\* environment
GetMeterProvider(t) ==
    /\ pc[t] = "idle"
    /\ ops < MaxOps
    /\ ops' = ops + 1
    /\ LET f == [NoFrame EXCEPT !.op = "gmp",
                                !.emptyAtStart = (slot = NoProvider),
                                !.afterSets = (setsDone > 0 /\ ~SetInFlight)]
       IN  IF slot # NoProvider
           THEN /\ frame' = [frame EXCEPT ![t] = f]
                /\ Goto(t, "gmp_return")
                /\ UNCHANGED ret
           ELSE IF ~environ
           THEN Return(t, [f EXCEPT !.rkind = "provider",
                                    !.rprov = ProxyProvider])
           ELSE /\ frame' = [frame EXCEPT ![t] = f]
                /\ Goto(t, "gmp_load")
                /\ UNCHANGED ret
    /\ UNCHANGED <<environ, slot, onceDone, onceLock, proxyLock, proxyReal,
                   meters, backendCalls, upgradeCalls, slotWrites, races, warnings, winners,
                   loads, regs, setsDone>>

\* variant of line 518 that passes log=True
LoadProviderReturns_Logs(t) ==
    /\ pc[t] = "gmp_load"
    /\ loads' = loads + 1
    /\ regs' = regs + 1
    /\ frame' = [frame EXCEPT ![t].arg = LoadedProvider(loads + 1),
                              ![t].log = TRUE,
                              ![t].lateCall = onceDone]
    /\ Goto(t, "once_check")
    /\ UNCHANGED <<environ, slot, onceDone, onceLock, proxyLock, proxyReal,
                   meters, ret, backendCalls, upgradeCalls, slotWrites, races,
                   warnings, winners, setsDone, ops>>

\* get_meter_provider, lines 515-518: _load_provider returns a provider, which
\* goes to _set_meter_provider with log=False
LoadProviderReturns(t) ==
    /\ pc[t] = "gmp_load"
    /\ loads' = loads + 1
    /\ regs' = regs + 1
    /\ frame' = [frame EXCEPT ![t].arg = LoadedProvider(loads + 1),
                              ![t].log = FALSE,
                              ![t].lateCall = onceDone]
    /\ Goto(t, "once_check")
    /\ UNCHANGED <<environ, slot, onceDone, onceLock, proxyLock, proxyReal,
                   meters, ret, backendCalls, upgradeCalls, slotWrites, races, warnings, winners,
                   setsDone, ops>>

\* variant of lines 515-517 that swallows the exception and falls back to the
\* provider proxy
LoadProviderRaises_Swallowed(t) ==
    /\ pc[t] = "gmp_load"
    /\ Return(t, [frame[t] EXCEPT !.rkind = "provider",
                                  !.rprov = ProxyProvider])
    /\ UNCHANGED <<environ, slot, onceDone, onceLock, proxyLock, proxyReal,
                   meters, backendCalls, upgradeCalls, slotWrites, races,
                   warnings, winners, loads, regs, setsDone, ops>>

\* get_meter_provider, lines 515-517: _load_provider raises, and the exception
\* leaves get_meter_provider
LoadProviderRaises(t) ==
    /\ pc[t] = "gmp_load"
    /\ Return(t, [frame[t] EXCEPT !.rkind = "exception"])
    /\ UNCHANGED <<environ, slot, onceDone, onceLock, proxyLock, proxyReal,
                   meters, backendCalls, upgradeCalls, slotWrites, races, warnings, winners,
                   loads, regs, setsDone, ops>>

\* variant of line 521: returns the provider proxy whatever the slot holds
GetMeterProviderReturn_Proxy(t) ==
    /\ pc[t] = "gmp_return"
    /\ Return(t, [frame[t] EXCEPT !.rkind = "provider",
                                  !.rprov = ProxyProvider])
    /\ UNCHANGED <<environ, slot, onceDone, onceLock, proxyLock, proxyReal,
                   meters, backendCalls, upgradeCalls, slotWrites, races,
                   warnings, winners, loads, regs, setsDone, ops>>

\* variant of line 521: returns the provider this call resolved, when it
\* resolved one
GetMeterProviderReturn_Own(t) ==
    /\ pc[t] = "gmp_return"
    /\ Return(t, [frame[t] EXCEPT
                    !.rkind = "provider",
                    !.rprov = IF frame[t].arg # NoProvider
                              THEN frame[t].arg ELSE slot])
    /\ UNCHANGED <<environ, slot, onceDone, onceLock, proxyLock, proxyReal,
                   meters, backendCalls, upgradeCalls, slotWrites, races,
                   warnings, winners, loads, regs, setsDone, ops>>

\* get_meter_provider, line 521: return _METER_PROVIDER
GetMeterProviderReturn(t) ==
    /\ pc[t] = "gmp_return"
    /\ Return(t, [frame[t] EXCEPT !.rkind = "provider", !.rprov = slot])
    /\ UNCHANGED <<environ, slot, onceDone, onceLock, proxyLock, proxyReal,
                   meters, backendCalls, upgradeCalls, slotWrites, races, warnings, winners,
                   loads, regs, setsDone, ops>>

\* ------------------------------------------------------- provider proxy

\* variant of lines 308-310 with version and schema_url exchanged
UpgradeIdent_Swapped(ident) == <<ident[1], ident[3], ident[2]>>

\* the arguments _ProxyMeter.on_set_meter_provider passes to get_meter for a
\* meter proxy of identity (name, version, schema_url): lines 308-310
UpgradeIdent(ident) == <<ident[1], ident[2], ident[3]>>

\* the arguments _ProxyMeterProvider.get_meter passes on to a bound real
\* provider: lines 100-102
DelegateIdent(ident) == <<ident[1], ident[2], ident[3]>>

\* variant of lines 98-106 that never delegates: every call makes and holds
\* a new meter proxy
ProxyGetMeter_AlwaysProxy(t, ident) ==
    /\ pc[t] = "idle"
    /\ ops < MaxOps
    /\ proxyLock = Free
    /\ ops' = ops + 1
    /\ Len(meters) < MaxMeters
    /\ meters' = Append(meters, NewProxyMeter(ident))
    /\ Return(t, [NoFrame EXCEPT !.op = "get_meter", !.ident = ident,
                                 !.rkind = "meter_proxy",
                                 !.ridx = Len(meters) + 1])
    /\ UNCHANGED <<environ, slot, onceDone, onceLock, proxyLock, proxyReal,
                   backendCalls, upgradeCalls, slotWrites, races, warnings,
                   winners, loads, regs, setsDone>>

\* variant of lines 98-106 that hands out the meter proxy it already holds for
\* an identity instead of making a second one
ProxyGetMeter_Dedup(t, ident) ==
    /\ pc[t] = "idle"
    /\ ops < MaxOps
    /\ proxyLock = Free
    /\ proxyReal = NoProvider
    /\ ops' = ops + 1
    /\ LET f == [NoFrame EXCEPT !.op = "get_meter", !.ident = ident]
           held == {k \in 1..Len(meters) : meters[k].ident = ident}
       IN  IF held # {}
           THEN /\ Return(t, [f EXCEPT !.rkind = "meter_proxy",
                                       !.ridx = CHOOSE k \in held : TRUE])
                /\ UNCHANGED meters
           ELSE /\ Len(meters) < MaxMeters
                /\ meters' = Append(meters, NewProxyMeter(ident))
                /\ Return(t, [f EXCEPT !.rkind = "meter_proxy",
                                       !.ridx = Len(meters) + 1])
    /\ UNCHANGED <<environ, slot, onceDone, onceLock, proxyLock, proxyReal,
                   backendCalls, upgradeCalls, slotWrites, races, warnings,
                   winners, loads, regs, setsDone>>

\* _ProxyMeterProvider.get_meter(name, version, schema_url), the whole
\* `with self._lock` block.  Bound to itself (set_meter_provider was given the
\* proxy), line 100 calls this same method, which waits for the lock its own
\* caller holds: the thread stays at "gm_blocked" with the lock.
ProxyGetMeter(t, ident) ==
    /\ pc[t] = "idle"
    /\ ops < MaxOps
    /\ proxyLock = Free
    /\ ops' = ops + 1
    /\ LET f == [NoFrame EXCEPT !.op = "get_meter",
                                !.ident = ident]
           n == Len(backendCalls) + 1
           m == BackendMeter(proxyReal, DelegateIdent(ident), n)
       IN  IF proxyReal = ProxyProvider
           THEN /\ proxyLock' = t
                /\ frame' = [frame EXCEPT ![t] = f]
                /\ Goto(t, "gm_blocked")
                /\ UNCHANGED <<meters, backendCalls, ret>>
           ELSE IF proxyReal # NoProvider
           THEN /\ backendCalls' =
                       Append(backendCalls,
                              GetMeterCall(proxyReal, DelegateIdent(ident)))
                /\ Return(t, [f EXCEPT !.rkind = "meter", !.rmeter = m])
                /\ UNCHANGED <<meters, proxyLock>>
           ELSE /\ Len(meters) < MaxMeters
                /\ meters' = Append(meters, NewProxyMeter(ident))
                /\ Return(t, [f EXCEPT !.rkind = "meter_proxy",
                                       !.ridx = Len(meters) + 1])
                /\ UNCHANGED <<backendCalls, proxyLock>>
    /\ UNCHANGED <<environ, slot, onceDone, onceLock, proxyReal, upgradeCalls, slotWrites, races,
                   warnings, winners, loads, regs, setsDone>>

\* variant of the loop of line 111 that stops one meter proxy early
MeterLoop_SkipsLast(i) == IF i < Len(meters) THEN "m_get" ELSE "up_exit"

\* where the loop of line 111 goes with meter number i
MeterLoop(i) == IF i <= Len(meters) THEN "m_get" ELSE "up_exit"

\* variant of lines 109-110 that takes the lock but does not store the real
\* provider
ProxyOnSetEnter_NoStore(t) ==
    /\ pc[t] = "up_enter"
    /\ proxyLock = Free
    /\ proxyLock' = t
    /\ upgradeCalls' = Append(upgradeCalls, frame[t].arg)
    /\ frame' = [frame EXCEPT ![t].i = 1]
    /\ Goto(t, MeterLoop(1))
    /\ UNCHANGED <<slotWrites, races, environ, slot, onceDone, onceLock,
                   proxyReal, meters, ret, backendCalls, warnings, winners,
                   loads, regs, setsDone, ops>>

\* set_mp, line 491, and _ProxyMeterProvider.on_set_meter_provider, lines
\* 109-110: take the lock and store the real provider
ProxyOnSetEnter(t) ==
    /\ pc[t] = "up_enter"
    /\ proxyLock = Free
    /\ proxyLock' = t
    /\ proxyReal' = frame[t].arg
    /\ upgradeCalls' = Append(upgradeCalls, frame[t].arg)
    /\ frame' = [frame EXCEPT ![t].i = 1]
    /\ Goto(t, MeterLoop(1))
    /\ UNCHANGED <<slotWrites, races, environ, slot, onceDone, onceLock, meters, ret,
                   backendCalls, warnings, winners, loads, regs, setsDone, ops>>

\* _ProxyMeterProvider.on_set_meter_provider: the loop of lines 111-112 is
\* over, the lock is released
ProxyOnSetExit(t) ==
    /\ pc[t] = "up_exit"
    /\ proxyLock' = Free
    /\ Goto(t, "once_done")
    /\ UNCHANGED <<environ, slot, onceDone, onceLock, proxyReal, meters, frame,
                   ret, backendCalls, upgradeCalls, slotWrites, races, warnings, winners, loads,
                   regs, setsDone, ops>>

\* ---------------------------------------------------------- meter proxy

\* _ProxyMeter.on_set_meter_provider, lines 308-310: the real meter for the
\* i-th meter proxy.  With the provider proxy itself as meter_provider the
\* call is _ProxyMeterProvider.get_meter, which waits for the lock this thread
\* took at line 109: the step is never taken.
MeterOnSetGetMeter(t) ==
    /\ pc[t] = "m_get"
    /\ frame[t].arg # ProxyProvider
    /\ LET ident == UpgradeIdent(meters[frame[t].i].ident)
           n == Len(backendCalls) + 1
       IN  /\ backendCalls' =
                  Append(backendCalls, GetMeterCall(frame[t].arg, ident))
           /\ frame' = [frame EXCEPT
                          ![t].realMeter = BackendMeter(frame[t].arg, ident, n)]
    /\ Goto(t, "m_lock")
    /\ UNCHANGED <<environ, slot, onceDone, onceLock, proxyLock, proxyReal,
                   meters, ret, upgradeCalls, slotWrites, races, warnings, winners, loads, regs,
                   setsDone, ops>>

\* where the loop of line 316 goes with instrument number j of meter i
InstrumentLoop(i, j) ==
    IF j <= Len(meters[i].instruments) THEN "m_notify" ELSE "m_unlock"

\* variant of lines 312-313 that stores the real meter without taking the
\* meter's lock
MeterOnSetLock_NoLock(t) ==
    /\ pc[t] = "m_lock"
    /\ meters' = [meters EXCEPT ![frame[t].i].real = frame[t].realMeter,
                                ![frame[t].i].bound = @ + 1]
    /\ frame' = [frame EXCEPT ![t].j = 1]
    /\ Goto(t, InstrumentLoop(frame[t].i, 1))
    /\ UNCHANGED <<environ, slot, onceDone, onceLock, proxyLock, proxyReal,
                   ret, backendCalls, upgradeCalls, slotWrites, races,
                   warnings, winners, loads, regs, setsDone, ops>>

\* _ProxyMeter.on_set_meter_provider, lines 312-313: take the meter's lock and
\* store the real meter
MeterOnSetLock(t) ==
    /\ pc[t] = "m_lock"
    /\ meters[frame[t].i].lock = Free
    /\ meters' = [meters EXCEPT ![frame[t].i].lock = t,
                                ![frame[t].i].real = frame[t].realMeter,
                                ![frame[t].i].bound = @ + 1]
    /\ frame' = [frame EXCEPT ![t].j = 1]
    /\ Goto(t, InstrumentLoop(frame[t].i, 1))
    /\ UNCHANGED <<environ, slot, onceDone, onceLock, proxyLock, proxyReal,
                   ret, backendCalls, upgradeCalls, slotWrites, races, warnings, winners, loads,
                   regs, setsDone, ops>>

\* _ProxyInstrument.on_meter_set(real_meter): the proxy builds its real
\* instrument with the create_* of its kind, from its recorded arguments
OnMeterSet(instrument, realMeter, n) ==
    [instrument EXCEPT
        !.real = BackendInstrument(realMeter, instrument.kind,
                                   instrument.args, n),
        !.notified = Append(@, realMeter)]

\* variant of lines 316-317 that walks the instrument proxies from the last
\* one created to the first
MeterOnSetNotify_Reversed(t) ==
    /\ pc[t] = "m_notify"
    /\ LET i == frame[t].i
           j == frame[t].j
           r == Len(meters[i].instruments) + 1 - j
           instrument == meters[i].instruments[r]
           n == Len(backendCalls) + 1
       IN  /\ meters' = [meters EXCEPT ![i].instruments[r] =
                            OnMeterSet(instrument, frame[t].realMeter, n)]
           /\ backendCalls' =
                  Append(backendCalls,
                         CreateCall(frame[t].realMeter, instrument.kind,
                                    instrument.args))
           /\ frame' = [frame EXCEPT ![t].j = j + 1]
           /\ Goto(t, InstrumentLoop(i, j + 1))
    /\ UNCHANGED <<environ, slot, onceDone, onceLock, proxyLock, proxyReal,
                   ret, upgradeCalls, slotWrites, races, warnings, winners,
                   loads, regs, setsDone, ops>>

\* _ProxyMeter.on_set_meter_provider, lines 316-317: notify the j-th
\* instrument proxy of the i-th meter proxy
MeterOnSetNotify(t) ==
    /\ pc[t] = "m_notify"
    /\ LET i == frame[t].i
           j == frame[t].j
           instrument == meters[i].instruments[j]
           n == Len(backendCalls) + 1
       IN  /\ meters' = [meters EXCEPT ![i].instruments[j] =
                            OnMeterSet(instrument, frame[t].realMeter, n)]
           /\ backendCalls' =
                  Append(backendCalls,
                         CreateCall(frame[t].realMeter, instrument.kind,
                                    instrument.args))
           /\ frame' = [frame EXCEPT ![t].j = j + 1]
           /\ Goto(t, InstrumentLoop(i, j + 1))
    /\ UNCHANGED <<environ, slot, onceDone, onceLock, proxyLock, proxyReal,
                   ret, upgradeCalls, slotWrites, races, warnings, winners, loads, regs, setsDone,
                   ops>>

\* _ProxyMeter.on_set_meter_provider: the loop of lines 316-317 is over, the
\* meter's lock is released, and line 111 goes to the next meter proxy
MeterOnSetUnlock(t) ==
    /\ pc[t] = "m_unlock"
    /\ meters' = [meters EXCEPT ![frame[t].i].lock = Free]
    /\ frame' = [frame EXCEPT ![t].i = @ + 1, ![t].j = 0,
                              ![t].realMeter = NoMeter]
    /\ Goto(t, MeterLoop(frame[t].i + 1))
    /\ UNCHANGED <<environ, slot, onceDone, onceLock, proxyLock, proxyReal,
                   ret, backendCalls, upgradeCalls, slotWrites, races, warnings, winners, loads,
                   regs, setsDone, ops>>

\* the arguments the create_* of kind passes to a bound real meter, and those
\* it gives the instrument proxy it builds: lines 319-392
CreateArgs(kind, args) ==
    [name |-> args.name, unit |-> args.unit, description |-> args.description,
     callback |-> IF kind \in ObservableKinds THEN args.callback ELSE ""]

\* variant of create_<kind> without the test of _real_meter: it builds a
\* proxy even when the meter is bound
ProxyMeterCreate_AlwaysProxy(t, k, kind) ==
    /\ pc[t] = "idle"
    /\ ops < MaxOps
    /\ k \in 1..Len(meters)
    /\ meters[k].lock = Free
    /\ ops' = ops + 1
    /\ LET f == [NoFrame EXCEPT !.op = "create", !.i = k, !.kind = kind]
           args == CreateArgs(kind, CallerArgs(kind))
       IN  /\ InstrumentCount(Len(meters)) < MaxInstruments
           /\ meters' = [meters EXCEPT ![k].instruments =
                            Append(@, NewProxyInstrument(kind, args))]
           /\ Return(t, [f EXCEPT !.rkind = "instrument_proxy",
                                  !.ridx = Len(meters[k].instruments) + 1])
    /\ UNCHANGED <<environ, slot, onceDone, onceLock, proxyLock, proxyReal,
                   backendCalls, upgradeCalls, slotWrites, races, warnings,
                   winners, loads, regs, setsDone>>

\* _ProxyMeter.create_<kind>(name, [callback,] unit, description) on the k-th
\* meter proxy, the whole `with self._lock` block
ProxyMeterCreate(t, k, kind) ==
    /\ pc[t] = "idle"
    /\ ops < MaxOps
    /\ k \in 1..Len(meters)
    /\ meters[k].lock = Free
    /\ ops' = ops + 1
    /\ LET f == [NoFrame EXCEPT !.op = "create", !.i = k,
                                !.kind = kind]
           args == CreateArgs(kind, CallerArgs(kind))
           n == Len(backendCalls) + 1
       IN  IF meters[k].real # NoMeter
           THEN /\ backendCalls' =
                       Append(backendCalls,
                              CreateCall(meters[k].real, kind, args))
                /\ Return(t, [f EXCEPT !.rkind = "instrument",
                                       !.rinstr = BackendInstrument(
                                            meters[k].real, kind, args, n)])
                /\ UNCHANGED meters
           ELSE /\ InstrumentCount(Len(meters)) < MaxInstruments
                /\ meters' = [meters EXCEPT ![k].instruments =
                                 Append(@, NewProxyInstrument(kind, args))]
                /\ Return(t, [f EXCEPT !.rkind = "instrument_proxy",
                                       !.ridx = Len(meters[k].instruments) + 1])
                /\ UNCHANGED backendCalls
    /\ UNCHANGED <<environ, slot, onceDone, onceLock, proxyLock, proxyReal,
                   upgradeCalls, slotWrites, races, warnings, winners, loads, regs, setsDone>>

\* ------------------------------------------------------- specification

Next ==
    \E t \in Threads :
        \/ \E p \in SetArgs : SetMeterProvider(t, p)
        \/ OnceCheck(t)
        \/ OnceAcquire(t)
        \/ SetMp(t)
        \/ ProxyOnSetEnter(t)
        \/ MeterOnSetGetMeter(t)
        \/ MeterOnSetLock(t)
        \/ MeterOnSetNotify(t)
        \/ MeterOnSetUnlock(t)
        \/ ProxyOnSetExit(t)
        \/ OnceFinish(t)
        \/ LogCheck(t)
        \/ GetMeterProvider(t)
        \/ LoadProviderReturns(t)
        \/ LoadProviderRaises(t)
        \/ GetMeterProviderReturn(t)
        \/ \E ident \in MeterIdents : ProxyGetMeter(t, ident)
        \/ \E k \in 1..MaxMeters, kind \in Kinds : ProxyMeterCreate(t, k, kind)

Spec == Init /\ [][Next]_vars

\* ---------------------------------------------------------- properties

AllIdle == \A t \in Threads : pc[t] = "idle"

\* the do_once call that ran set_mp has returned to _set_meter_provider, and
\* that call has gone past its log check
WinnerReturned ==
    /\ onceDone
    /\ ~\E t \in Threads : pc[t] = "log_check" /\ frame[t].didSet

\* C1: however the set_meter_provider calls interleave, _METER_PROVIDER is
\* assigned at most once; once any of the calls has returned it holds a
\* provider, one of those passed when no configured provider was loaded; and a
\* get_meter_provider call that starts after the calls have returned returns
\* the provider the slot holds.
C1_OneEffectiveProvider ==
    /\ Len(slotWrites) <= 1
    /\ setsDone > 0 =>
          /\ slotWrites = <<slot>>
          /\ slot # NoProvider
          /\ loads = 0 => slot \in SetArgs
    /\ (ret.op = "gmp" /\ ret.afterSets) =>
          /\ ret.rkind = "provider"
          /\ ret.rprov = slot
          /\ ret.rprov # NoProvider

\* two set_meter_provider calls raced for the gate, both have returned, and a
\* get_meter_provider call that started afterwards has returned the winner's
\* provider
C1_Witness ==
    /\ ret.op = "gmp"
    /\ ret.afterSets
    /\ setsDone = 2
    /\ races = 1
    /\ ret.rprov = slot
    /\ slot \in SetArgs \ {ProxyProvider}

\* C2: the provider proxy's on_set_meter_provider is called at most once, with
\* the provider stored in _METER_PROVIDER, and it has been called once the
\* gate has fired or every thread is idle after a registration was attempted.
C2_UpgradeOnce ==
    /\ Len(upgradeCalls) <= 1
    /\ Len(upgradeCalls) = 1 => upgradeCalls[1] = slot /\ proxyReal = slot
    /\ (onceDone \/ (regs > 0 /\ AllIdle)) => Len(upgradeCalls) = 1

\* two registrations raced for the gate, both are over, and the upgrade ran
\* once, with the winner's provider
C2_Witness ==
    /\ regs = 2
    /\ races = 1
    /\ AllIdle
    /\ upgradeCalls = <<slot>>
    /\ Len(meters) > 0

\* C3: a set_meter_provider call that ran set_mp returns without a warning
\* and its provider is the one in the slot; every other call returns with
\* exactly one warning.  At most one call wins.  A call that starts after the
\* gate has fired loses; a call made with no other registration before it
\* returns wins.  No warning is logged beyond these.
C3_WarningPerLoser ==
    /\ winners <= 1
    /\ ret.op = "set" =>
          /\ ret.rkind # "exception"
          /\ ret.warned = (IF ret.didSet THEN 0 ELSE 1)
          /\ ret.didSet => slot = ret.arg
          /\ ret.lateCall => ~ret.didSet
          /\ ret.alone => ret.didSet
    /\ warnings =
          setsDone - (IF WinnerReturned /\ slot \in SetArgs THEN 1 ELSE 0)

\* set_provider(p1) has won and returned, then set_provider(p2) was called
\* and has returned with the one warning logged; p1 is in the slot
C3_Witness ==
    /\ ret.op = "set"
    /\ ret.lateCall
    /\ ret.warned = 1
    /\ warnings = 1
    /\ setsDone = 2
    /\ races = 0
    /\ slot # ret.arg
    /\ slot \in SetArgs

\* thread t takes a step of a set_meter_provider call that began after the
\* gate had fired
LateSetStep(t) ==
    \/ /\ frame[t].op = "set"
       /\ frame[t].lateCall
       /\ pc'[t] # pc[t]
    \/ /\ pc[t] = "idle"
       /\ frame'[t].op = "set"
       /\ frame'[t].lateCall

\* C4: no step of a set_meter_provider call made after the gate has fired
\* changes the slot, the gate, the provider proxy's real reference, any meter
\* proxy (real reference, instrument list, lock) or the record of calls made
\* on backends: such a call makes no get_meter or create_* call on anything.
C4_LateSetIsNoOp ==
    [][\A t \in Threads :
          LateSetStep(t) =>
              UNCHANGED <<slot, slotWrites, onceDone, onceLock, proxyReal,
                          proxyLock, meters, backendCalls, upgradeCalls>>]_vars

\* a set_meter_provider call made after the gate had fired has returned, with
\* a provider other than the stored one, while the proxy holds a bound meter
\* proxy with an instrument proxy
C4_Witness ==
    /\ ret.op = "set"
    /\ ret.lateCall
    /\ ret.arg # slot
    /\ Len(meters) > 0
    /\ meters[1].real # NoMeter
    /\ Len(meters[1].instruments) > 0

\* the k-th meter proxy forwards to the meter that the provider in the slot
\* returned for its identity, and each of its instrument proxies was notified
\* with that meter
BoundToSlot(k) ==
    LET m == meters[k]
    IN  /\ m.real # NoMeter
        /\ m.real.prov = slot
        /\ m.real.ident = m.ident
        /\ m.real.n \in 1..Len(backendCalls)
        /\ backendCalls[m.real.n] = GetMeterCall(slot, m.ident)
        /\ \A j \in 1..Len(m.instruments) :
              m.instruments[j].notified = <<m.real>>

\* C5: once the registration that won the gate has returned, every meter
\* proxy the provider proxy has handed out forwards to the meter the
\* registered provider returned for the proxy's identity, and every
\* instrument proxy those meter proxies have handed out has been notified
\* with that meter.
C5_HandlesUpgraded ==
    WinnerReturned => \A k \in 1..Len(meters) : BoundToSlot(k)

\* set_meter_provider has won and returned while the proxy held two meter
\* proxies, one of them with an instrument proxy
C5_Witness ==
    /\ ret.op = "set"
    /\ ret.didSet
    /\ WinnerReturned
    /\ Len(meters) = 2
    /\ \E k \in 1..2 : Len(meters[k].instruments) > 0
    /\ \A k \in 1..2 : BoundToSlot(k)

\* C6: no meter proxy is bound twice and no instrument proxy is notified
\* twice; when the gate has fired and every thread is idle, every meter proxy
\* has been bound once and every instrument proxy notified once.
C6_ExactlyOnce ==
    /\ \A k \in 1..Len(meters) :
          /\ meters[k].bound <= 1
          /\ \A j \in 1..Len(meters[k].instruments) :
                Len(meters[k].instruments[j].notified) <= 1
    /\ (onceDone /\ AllIdle) =>
          \A k \in 1..Len(meters) :
             /\ meters[k].bound = 1
             /\ \A j \in 1..Len(meters[k].instruments) :
                   Len(meters[k].instruments[j].notified) = 1

\* every thread is idle after a registration won; calls on the bound proxies
\* went to the real meter, and the meter proxy and its instrument proxy were
\* upgraded once each
C6_Witness ==
    /\ onceDone
    /\ AllIdle
    /\ ret.op = "create"
    /\ ret.rkind = "instrument"
    /\ Len(meters) > 0
    /\ meters[1].bound = 1
    /\ Len(meters[1].instruments) > 0
    /\ Len(meters[1].instruments[1].notified) = 1

\* C7: a meter proxy records the identity its caller gave, and the upgrade
\* asks the real provider for a meter of exactly that identity; an instrument
\* proxy records its caller's kind and arguments, and its real instrument is
\* built on the real meter of its own meter proxy, by the create_* of its
\* kind, from those arguments.
C7_IdentityPreserved ==
    /\ ret.rkind = "meter_proxy" => meters[ret.ridx].ident = ret.ident
    /\ ret.rkind = "instrument_proxy" =>
          LET q == meters[ret.i].instruments[ret.ridx]
          IN  q.kind = ret.kind /\ q.args = CallerArgs(ret.kind)
    /\ \A t \in Threads :
          pc[t] \in {"m_lock", "m_notify", "m_unlock"} =>
              /\ frame[t].realMeter.prov = frame[t].arg
              /\ frame[t].realMeter.ident = meters[frame[t].i].ident
    /\ \A k \in 1..Len(meters) :
          LET m == meters[k]
          IN  /\ m.real # NoMeter =>
                    /\ m.real.ident = m.ident
                    /\ backendCalls[m.real.n] = GetMeterCall(slot, m.ident)
              /\ \A j \in 1..Len(m.instruments) :
                    LET q == m.instruments[j]
                    IN  q.real # NoInstrument =>
                            /\ q.real.meter = m.real
                            /\ q.real.kind = q.kind
                            /\ q.real.args = q.args
                            /\ q.args = CallerArgs(q.kind)
                            /\ backendCalls[q.real.n] =
                                   CreateCall(m.real, q.kind, q.args)

\* two meter proxies of different identities are bound, and an observable
\* instrument proxy of the second one has its real instrument
C7_Witness ==
    /\ Len(meters) = 2
    /\ meters[1].ident # meters[2].ident
    /\ meters[1].real # NoMeter
    /\ meters[2].real # NoMeter
    /\ Len(meters[2].instruments) > 0
    /\ meters[2].instruments[1].kind \in ObservableKinds
    /\ meters[2].instruments[1].real # NoInstrument
    /\ meters[2].instruments[1].real.meter = meters[2].real

C9_ProxyWhileUnregistered ==
    [][\A t \in Threads :
          (GetMeterProvider(t) /\ slot = NoProvider /\ ~environ) =>
              /\ ret'.op = "gmp"
              /\ ret'.rkind = "provider"
              /\ ret'.rprov = ProxyProvider
              /\ pc'[t] = "idle"
              /\ UNCHANGED <<slot, slotWrites, onceDone, onceLock, proxyReal,
                             proxyLock, meters, regs, loads, winners,
                             upgradeCalls, backendCalls, warnings>>]_vars

\* get_meter_provider has returned the provider proxy, called with the slot
\* empty and no key, after the proxy had already handed out a meter proxy
C9_Witness ==
    /\ ret.op = "gmp"
    /\ ret.emptyAtStart
    /\ ~environ
    /\ ret.rprov = ProxyProvider
    /\ slot = NoProvider
    /\ ~onceDone
    /\ Len(meters) > 0

\* C10: the installation get_meter_provider makes of a configured provider
\* logs nothing, whether it wins the gate or not: every warning belongs to a
\* set_meter_provider call.
C10_AutoPathSilent ==
    /\ \A t \in Threads :
          frame[t].op = "gmp" => ~frame[t].log /\ frame[t].warned = 0
    /\ ret.op = "gmp" => ~ret.log /\ ret.warned = 0
    /\ warnings <= setsDone

\* get_meter_provider loaded a configured provider, lost the gate to a
\* set_meter_provider call and returned that call's provider, with no warning
\* logged
C10_Witness ==
    /\ ret.op = "gmp"
    /\ ret.arg.cls = "Loaded"
    /\ ~ret.didSet
    /\ ret.rprov = slot
    /\ slot \in SetArgs
    /\ warnings = 0

\* ---------------------------------------------------------------------
\* The registry with a backend whose get_meter or create_* may raise during
\* the upgrade. Neither loop (lines 111-112, 316-317) has a try/except, so
\* the exception leaves every enclosing `with` block and the entry point.

\* _ProxyMeter.on_set_meter_provider, lines 308-310: the backend's get_meter
\* raises; no meter lock is held yet
MeterOnSetGetMeterRaises(t) ==
    /\ pc[t] = "m_get"
    /\ frame[t].arg # ProxyProvider
    /\ backendCalls' =
           Append(backendCalls,
                  GetMeterCall(frame[t].arg,
                               UpgradeIdent(meters[frame[t].i].ident)))
    /\ frame' = [frame EXCEPT ![t].rkind = "exception"]
    /\ Goto(t, "up_raise")
    /\ UNCHANGED <<environ, slot, onceDone, onceLock, proxyLock, proxyReal,
                   meters, ret, upgradeCalls, slotWrites, races, warnings,
                   winners, loads, regs, setsDone, ops>>

\* _ProxyMeter.on_set_meter_provider, lines 312-317: on_meter_set of the j-th
\* instrument proxy raises; the `with self._lock` of line 312 releases the
\* meter's lock on the way out
MeterOnSetNotifyRaises(t) ==
    /\ pc[t] = "m_notify"
    /\ LET i == frame[t].i
           instrument == meters[i].instruments[frame[t].j]
       IN  /\ backendCalls' =
                  Append(backendCalls,
                         CreateCall(frame[t].realMeter, instrument.kind,
                                    instrument.args))
           /\ meters' = [meters EXCEPT ![i].lock = Free]
    /\ frame' = [frame EXCEPT ![t].rkind = "exception"]
    /\ Goto(t, "up_raise")
    /\ UNCHANGED <<environ, slot, onceDone, onceLock, proxyLock, proxyReal,
                   ret, upgradeCalls, slotWrites, races, warnings, winners,
                   loads, regs, setsDone, ops>>

\* _ProxyMeterProvider.on_set_meter_provider, lines 109-112: the exception
\* leaves the loop and the `with self._lock` of line 109
ProxyOnSetRaise(t) ==
    /\ pc[t] = "up_raise"
    /\ proxyLock' = Free
    /\ Goto(t, "once_raise")
    /\ UNCHANGED <<environ, slot, onceDone, onceLock, proxyReal, meters,
                   frame, ret, backendCalls, upgradeCalls, slotWrites, races,
                   warnings, winners, loads, regs, setsDone, ops>>

\* Once.do_once: the action raised; the gate's lock is released, the gate is
\* not marked as fired, and the exception leaves _set_meter_provider (line
\* 493) and the entry point
OnceRaise(t) ==
    /\ pc[t] = "once_raise"
    /\ onceLock' = Free
    /\ Return(t, frame[t])
    /\ UNCHANGED <<environ, slot, onceDone, proxyLock, proxyReal, meters,
                   backendCalls, upgradeCalls, slotWrites, races, warnings,
                   winners, loads, regs, setsDone, ops>>

NextFail ==
    \/ Next
    \/ \E t \in Threads :
        \/ MeterOnSetGetMeterRaises(t)
        \/ MeterOnSetNotifyRaises(t)
        \/ ProxyOnSetRaise(t)
        \/ OnceRaise(t)

SpecFail == Init /\ [][NextFail]_vars

\* the last call that ended was a registration whose upgrade raised
UpgradeRaised == ret.rkind = "exception" /\ ret.arg # NoProvider

\* C14: when the upgrade of one child raises, the loops still reach every
\* other child: the loop over the meter proxies has reached the last one held,
\* and the loop over the instrument proxies of the meter proxy it was at has
\* reached that meter's last one.
C14_SiblingsStillAttempted ==
    UpgradeRaised =>
        /\ ret.i = Len(meters)
        /\ ret.j > 0 => ret.j = Len(meters[ret.i].instruments)

\* C11: a get_meter_provider call that found the slot empty and the key
\* present, and whose _load_provider returned, hands the provider to the gate
\* and returns what the slot holds: a provider, the only one ever assigned to
\* the slot, and its own only if its do_once ran set_mp.
C11_AutoPathReturnsWinner ==
    /\ \A t \in Threads :
          (frame[t].op = "gmp" /\ pc[t] = "gmp_return"
              /\ frame[t].arg # NoProvider) =>
                 onceDone /\ slot # NoProvider
    /\ (ret.op = "gmp" /\ ret.emptyAtStart /\ environ
           /\ ret.rkind = "provider") =>
          /\ ret.arg.cls = "Loaded"
          /\ onceDone
          /\ ret.rprov # NoProvider
          /\ ret.rprov = slot
          /\ slotWrites = <<slot>>
          /\ ret.didSet <=> ret.rprov = ret.arg

\* get_meter_provider resolved a provider while the gate was unfired, lost the
\* gate to a concurrent registration it had to wait for, and returned the
\* winner's provider
C11_Witness ==
    /\ ret.op = "gmp"
    /\ ret.emptyAtStart
    /\ ret.arg.cls = "Loaded"
    /\ ~ret.lateCall
    /\ ~ret.didSet
    /\ races = 1
    /\ ret.rprov = slot
    /\ slot # ret.arg

\* thread t calls _load_provider
LoadStep(t) == LoadProviderReturns(t) \/ LoadProviderRaises(t)

\* C12, as stated: whenever _load_provider is called, the key is present and
\* no set_meter_provider call has taken effect.
C12_LoadOnlyUnregistered ==
    [][\A t \in Threads :
          LoadStep(t) => environ /\ slot \notin SetArgs]_vars

\* C12, amended: _load_provider is called only by a get_meter_provider call
\* that read an empty slot at line 511 and found the key present; the slot
\* may have been filled since.
C12_LoadOnlyAfterEmptyRead ==
    /\ ~environ => loads = 0
    /\ \A t \in Threads :
          /\ pc[t] = "gmp_load" =>
                /\ environ
                /\ frame[t].op = "gmp"
                /\ frame[t].emptyAtStart
          /\ frame[t].arg.cls = "Loaded" =>
                /\ environ
                /\ frame[t].op = "gmp"
                /\ frame[t].emptyAtStart
    /\ ret.arg.cls = "Loaded" =>
          environ /\ ret.op = "gmp" /\ ret.emptyAtStart

\* a get_meter_provider call is about to call _load_provider although a
\* set_meter_provider call has filled the slot and returned since the call
\* read the slot
C12_Witness ==
    \E t \in Threads :
        /\ pc[t] = "gmp_load"
        /\ frame[t].emptyAtStart
        /\ slot \in SetArgs
        /\ setsDone = 1

\* C13: when _load_provider raises, get_meter_provider ends with that
\* exception, and the step changes nothing of the registration state: slot,
\* gate, provider proxy and meter proxies are as they were, so an unfired gate
\* is still unfired for a later set_meter_provider.
C13_LoadFailurePropagates ==
    [][\A t \in Threads :
          (pc[t] = "gmp_load" /\ pc'[t] = "idle") =>
              /\ ret'.op = "gmp"
              /\ ret'.rkind = "exception"
              /\ ret'.rprov = NoProvider
              /\ UNCHANGED <<slot, slotWrites, onceDone, onceLock, proxyReal,
                             proxyLock, meters, regs, loads, winners,
                             upgradeCalls, backendCalls, warnings>>]_vars

\* get_meter_provider has ended with the exception of _load_provider while
\* the slot is empty, the gate unfired and the provider proxy unbound with a
\* meter proxy held
C13_Witness ==
    /\ ret.op = "gmp"
    /\ ret.rkind = "exception"
    /\ slot = NoProvider
    /\ ~onceDone
    /\ onceLock = Free
    /\ proxyReal = NoProvider
    /\ Len(meters) > 0

\* C15: once the provider proxy's real provider is set it is never assigned
\* again, the list of meter proxies no longer grows, and every get_meter that
\* returns from then on returns a meter the real provider made; once a meter
\* proxy's real meter is set it is never assigned again, its list of
\* instrument proxies no longer grows, and every create_* on it from then on
\* returns an instrument the real meter made.
C15_BoundIsFinal ==
    [][/\ proxyReal # NoProvider =>
            /\ proxyReal' = proxyReal
            /\ Len(meters') = Len(meters)
            /\ \A t \in Threads, ident \in MeterIdents :
                  (ProxyGetMeter(t, ident) /\ pc'[t] = "idle") =>
                      /\ ret'.rkind = "meter"
                      /\ ret'.rmeter.prov = proxyReal
                      /\ backendCalls'[ret'.rmeter.n] =
                             GetMeterCall(proxyReal, ident)
       /\ \A k \in 1..Len(meters) :
             meters[k].real # NoMeter =>
                /\ meters'[k].real = meters[k].real
                /\ Len(meters'[k].instruments) = Len(meters[k].instruments)
                /\ \A t \in Threads, kind \in Kinds :
                      ProxyMeterCreate(t, k, kind) =>
                          /\ ret'.rkind = "instrument"
                          /\ ret'.rinstr.meter = meters[k].real
                          /\ backendCalls'[ret'.rinstr.n].op = "create"
                          /\ backendCalls'[ret'.rinstr.n].meter =
                                 meters[k].real]_vars

\* after the upgrade of a provider proxy that held a meter proxy with an
\* instrument proxy, a get_meter call returned a meter of the real provider
\* and the lists are as they were
C15_Witness ==
    /\ ret.op = "get_meter"
    /\ ret.rkind = "meter"
    /\ ret.rmeter.prov = proxyReal
    /\ onceDone
    /\ Len(meters) = 1
    /\ meters[1].real # NoMeter
    /\ meters[1].real # ret.rmeter
    /\ Len(meters[1].instruments) = 1

\* thread t is inside _ProxyMeter.on_set_meter_provider of meter proxy k
UpgradingMeter(t, k) ==
    /\ pc[t] \in {"m_get", "m_lock", "m_notify", "m_unlock"}
    /\ frame[t].i = k

\* meter proxy k has its real meter, and every instrument proxy it holds has
\* received on_meter_set
MeterUpgradeComplete(k) ==
    /\ meters[k].real # NoMeter
    /\ meters[k].lock = Free
    /\ \A j \in 1..Len(meters[k].instruments) :
          meters[k].instruments[j].notified # <<>>
    /\ \A t \in Threads : ~UpgradingMeter(t, k)

\* C16: get_meter on the provider proxy returns a real meter only when every
\* meter proxy held has completed its upgrade, and a meter proxy only when the
\* upgrade loop has not begun; create_* on a meter proxy returns a real
\* instrument only when every instrument proxy of that meter has received
\* on_meter_set, and an instrument proxy only when that meter's loop has not
\* begun.
C16_NoHalfUpgrade ==
    [][\A t \in Threads :
          /\ \A ident \in MeterIdents :
                (ProxyGetMeter(t, ident) /\ pc'[t] = "idle") =>
                    /\ ret'.rkind = "meter" =>
                          /\ proxyReal # NoProvider
                          /\ \A k \in 1..Len(meters) : MeterUpgradeComplete(k)
                    /\ ret'.rkind = "meter_proxy" =>
                          /\ proxyReal = NoProvider
                          /\ upgradeCalls = <<>>
                          /\ meters'[ret'.ridx].real = NoMeter
          /\ \A k \in 1..Len(meters), kind \in Kinds :
                ProxyMeterCreate(t, k, kind) =>
                    /\ ret'.rkind = "instrument" => MeterUpgradeComplete(k)
                    /\ ret'.rkind = "instrument_proxy" =>
                          /\ meters[k].real = NoMeter
                          /\ meters[k].bound = 0
                          /\ \A u \in Threads :
                                pc[u] \notin {"m_notify", "m_unlock"}
                                    \/ frame[u].i # k]_vars

\* create_* on the first meter proxy returned a real instrument while the
\* registration was still upgrading the second meter proxy
C16_Witness ==
    /\ ret.op = "create"
    /\ ret.rkind = "instrument"
    /\ ret.i = 1
    /\ Len(meters) = 2
    /\ \E t \in Threads : UpgradingMeter(t, 2)

\* instrument proxy j of meter proxy k has received on_meter_set
Notified(k, j) == meters[k].instruments[j].notified # <<>>

\* C17: the calls the upgrade makes on the backend are in creation order and
\* top-down: a meter proxy gets its real meter before any meter proxy created
\* after it, and all its instrument proxies are notified before the next
\* meter proxy's get_meter; instrument proxies of one meter proxy are notified
\* in the order they were created; and an instrument proxy is notified only
\* with, and after, the real meter its meter proxy obtained.
C17_TopDownInOrder ==
    \A k \in 1..Len(meters) :
        LET m == meters[k]
        IN  /\ \A j \in 1..Len(m.instruments) :
                  Notified(k, j) =>
                      /\ m.real # NoMeter
                      /\ m.instruments[j].notified = <<m.real>>
                      /\ m.real.n < m.instruments[j].real.n
                      /\ \A h \in 1..(j - 1) :
                            /\ Notified(k, h)
                            /\ m.instruments[h].real.n
                                   < m.instruments[j].real.n
            /\ \A k2 \in (k + 1)..Len(meters) :
                  meters[k2].real # NoMeter =>
                      /\ m.real # NoMeter
                      /\ m.real.n < meters[k2].real.n
                      /\ \A j \in 1..Len(m.instruments) :
                            /\ Notified(k, j)
                            /\ m.instruments[j].real.n < meters[k2].real.n

\* two meter proxies were upgraded, the first with an instrument proxy: the
\* backend saw get_meter for the first, then its instrument's create_*, then
\* get_meter for the second
C17_Witness ==
    /\ Len(meters) = 2
    /\ Len(meters[1].instruments) = 1
    /\ meters[2].real # NoMeter
    /\ meters[1].real.n = 1
    /\ meters[1].instruments[1].real.n = 2
    /\ meters[2].real.n = 3

\* C18: a registration that did not run the gate's action is past the gate
\* (about to log, or returned) only when the action is over: the gate is
\* fired, the slot is filled, the provider proxy is bound to the slot's
\* provider with its lock released, and every meter proxy held and every
\* instrument proxy of those has been upgraded.
C18_LoserAfterWinnerDone ==
    LET Done == /\ onceDone
                /\ slot # NoProvider
                /\ proxyReal = slot
                /\ \A u \in Threads :
                      pc[u] \notin {"set_mp", "up_enter", "m_get", "m_lock",
                                    "m_notify", "m_unlock", "up_exit",
                                    "once_done"}
                /\ \A k \in 1..Len(meters) :
                      BoundToSlot(k) /\ meters[k].lock = Free
    IN  /\ \A t \in Threads :
              (pc[t] = "log_check" /\ ~frame[t].didSet) => Done
        /\ (ret.op = "set" /\ ~ret.didSet) => Done

\* set_meter_provider waited at the gate for a concurrent registration, lost,
\* and returned with its warning after the winner had upgraded a meter proxy
\* and its instrument proxy
C18_Witness ==
    /\ ret.op = "set"
    /\ ~ret.didSet
    /\ ~ret.lateCall
    /\ ret.warned = 1
    /\ races = 1
    /\ Len(meters) = 1
    /\ Len(meters[1].instruments) = 1
    /\ BoundToSlot(1)

\* every upgraded meter proxy and every notified instrument proxy has a
\* backend call of its own
OneCallEach ==
    /\ \A k \in 1..Len(meters) :
          /\ meters[k].bound <= 1
          /\ \A j \in 1..Len(meters[k].instruments) :
                Len(meters[k].instruments[j].notified) <= 1
    /\ \A k1, k2 \in 1..Len(meters) :
          /\ (k1 # k2 /\ meters[k1].real # NoMeter
                 /\ meters[k2].real # NoMeter) =>
                 meters[k1].real.n # meters[k2].real.n
          /\ \A j1 \in 1..Len(meters[k1].instruments),
                j2 \in 1..Len(meters[k2].instruments) :
                (<<k1, j1>> # <<k2, j2>> /\ Notified(k1, j1)
                    /\ Notified(k2, j2)) =>
                    meters[k1].instruments[j1].real.n
                        # meters[k2].instruments[j2].real.n

\* C19: get_meter on the unbound provider proxy appends a new meter proxy and
\* returns it, whatever the list already holds, and create_* on an unbound
\* meter proxy appends a new instrument proxy and returns it; in the upgrade
\* each held meter proxy gets a get_meter call of its own and each held
\* instrument proxy a create_* call of its own.
C19_NoDeduplication ==
    [][/\ OneCallEach'
       /\ \A t \in Threads :
             /\ \A ident \in MeterIdents :
                   (ProxyGetMeter(t, ident) /\ proxyReal = NoProvider) =>
                       /\ meters' = Append(meters, NewProxyMeter(ident))
                       /\ ret'.rkind = "meter_proxy"
                       /\ ret'.ridx = Len(meters) + 1
             /\ \A k \in 1..Len(meters), kind \in Kinds :
                   (ProxyMeterCreate(t, k, kind)
                       /\ meters[k].real = NoMeter) =>
                       /\ Len(meters'[k].instruments)
                              = Len(meters[k].instruments) + 1
                       /\ \A j \in 1..Len(meters[k].instruments) :
                             meters'[k].instruments[j]
                                 = meters[k].instruments[j]
                       /\ ret'.rkind = "instrument_proxy"
                       /\ ret'.ridx = Len(meters[k].instruments) + 1
                       /\ meters'[k].instruments[ret'.ridx].kind = kind
                       /\ meters'[k].instruments[ret'.ridx].real
                              = NoInstrument]_vars

\* two meter proxies made for the same identity were both held, and the
\* upgrade called the real provider's get_meter with that identity twice
C19_Witness ==
    /\ Len(meters) = 2
    /\ meters[1].ident = meters[2].ident
    /\ WinnerReturned
    /\ BoundToSlot(1)
    /\ BoundToSlot(2)
    /\ meters[1].real.n # meters[2].real.n
    /\ backendCalls[meters[1].real.n] = backendCalls[meters[2].real.n]

\* a step of the call thread t is in
InFlightStep(t) ==
    \/ OnceCheck(t)
    \/ OnceAcquire(t)
    \/ SetMp(t)
    \/ ProxyOnSetEnter(t)
    \/ MeterOnSetGetMeter(t)
    \/ MeterOnSetLock(t)
    \/ MeterOnSetNotify(t)
    \/ MeterOnSetUnlock(t)
    \/ ProxyOnSetExit(t)
    \/ OnceFinish(t)
    \/ LogCheck(t)
    \/ LoadProviderReturns(t)
    \/ LoadProviderRaises(t)
    \/ GetMeterProviderReturn(t)

\* thread t is at a `with self._lock` of the provider proxy: line 109, or
\* line 98 reached from line 308 or from line 100 when the provider proxy is
\* the provider it is bound to
WaitsForProxyLock(t) ==
    \/ pc[t] = "up_enter"
    \/ pc[t] = "m_get" /\ frame[t].arg = ProxyProvider
    \/ pc[t] = "gm_blocked"

\* C20: no deadlock: whenever calls are in progress, one of them can take a
\* step (with backend calls that return and whatever provider was given to
\* set_meter_provider), so that under fair scheduling every call returns; and
\* a thread that waits for or takes the gate holds no other lock, and one that
\* waits for or takes the provider proxy's lock holds no meter proxy's lock
\* nor the provider proxy's lock itself.
C20_NoDeadlock ==
    /\ (\E t \in Threads : pc[t] # "idle") =>
           ENABLED (\E t \in Threads : InFlightStep(t))
    /\ \A t \in Threads :
          (pc[t] = "once_wait" \/ WaitsForProxyLock(t)) =>
              /\ proxyLock # t
              /\ \A k \in 1..Len(meters) : meters[k].lock # t


\* C21: the proxies agree with the slot in every state, also in the middle of
\* an upgrade: a provider proxy with a real provider means the slot holds
\* that same provider, and a meter proxy with a real meter means the provider
\* proxy has its real provider and the meter is what that provider's
\* get_meter returned for the meter proxy.
C21_GraphConsistentWithSlot ==
    /\ proxyReal # NoProvider =>
          /\ slot # NoProvider
          /\ slot = proxyReal
    /\ \A k \in 1..Len(meters) :
          meters[k].real # NoMeter =>
              /\ proxyReal # NoProvider
              /\ meters[k].real.prov = proxyReal
              /\ meters[k].real.n \in 1..Len(backendCalls)
              /\ backendCalls[meters[k].real.n].op = "get_meter"
              /\ backendCalls[meters[k].real.n].prov = proxyReal

\* the registration is in the middle of its upgrade: the provider proxy and
\* the first meter proxy are bound, the second meter proxy is not yet
C21_Witness ==
    /\ proxyReal # NoProvider
    /\ ~onceDone
    /\ Len(meters) = 2
    /\ meters[1].real # NoMeter
    /\ meters[2].real = NoMeter
    /\ \E t \in Threads : pc[t] = "m_lock" /\ frame[t].i = 2

====
